---------------------------- MODULE Spec2Model ----------------------------
(***************************************************************************)
(* A model of the closure-based brainfuck virtual machines of this         *)
(* repository.  Three iterations of the brainfuck VM are modelled side by  *)
(* side; the variable "variant" says which one a behaviour is about:       *)
(*                                                                         *)
(*   "cached"  src/main.go 193-607: jump targets looked up in vm.loops at  *)
(*             run time, every write buffered, errors kept in vm.err;      *)
(*   "lookup"  src/unnamed/part_000 31-449: as above, with the             *)
(*             BUFFER_STDOUT switch and a flush only of a non-empty        *)
(*             buffer;                                                     *)
(*   "baked"   src/unnamed/part_000 451-855: jump targets captured in the  *)
(*             loop closures at compile time, errors returned per call.    *)
(*                                                                         *)
(* Go indexes from 0 and TLA+ sequences from 1: At(s, i) is Go's s[i].     *)
(***************************************************************************)
EXTENDS Integers, Sequences, FiniteSets, TLC

(***************************************************************************)
(* Bounds of the model.                                                    *)
(***************************************************************************)
\* longest enumerated source text that is compiled and run
MaxLen == 3
\* longest enumerated source text that is compiled (compile-only behaviours)
MaxCompileLen == 4
\* a step whose cell would leave -MaxCell..MaxCell is not taken
MaxCell == 256
\* a step taking the pointer beyond MaxPtr is not taken
MaxPtr == 4
\* a write past MaxOut written characters is not taken
MaxOut == 3
\* a read past MaxIn bytes of STDIN is not taken
MaxIn == 3
\* the reference interpreter gives up on a loop after 2^RefFuel iterations
RefFuel == 9
RunFuel == 40
\* RunProgram is invoked at most MaxRuns times on one VM
MaxRuns == 2
MaxProg == 4

(***************************************************************************)
(* Program constants.                                                      *)
(***************************************************************************)
\* memory [30000]int
MemorySize == 30000
\* '\n'
Newline == 10
\* utf8.RuneError, what Go substitutes for an invalid code point
RuneError == 65533
\* utf8.MaxRune
MaxRune == 1114111

Nil == "nil"
\* a nil *VM
NilVM == [nil |-> TRUE]
NoArg == 0 - 1

Variants == {"cached", "lookup", "baked"}
Alphabet == {"+", "-", "<", ">", ",", ".", "[", "]", "x"}

At(s, i) == s[i + 1]
Last(s) == s[Len(s)]
Front(s) == SubSeq(s, 1, Len(s) - 1)

\* a Go map[int]int: a missing key reads as the zero value
Lookup(m, k) == IF k \in DOMAIN m THEN m[k] ELSE 0
Put(m, k, x) == [j \in (DOMAIN m) \cup {k} |-> IF j = k THEN x ELSE m[j]]
EmptyMap == [j \in {} |-> 0]

(***************************************************************************)
(* The instructions: what each make* constructor captures in its closure.  *)
(***************************************************************************)
makeExit == [op |-> "Exit", arg |-> NoArg]
makeIncCell(n) == [op |-> "IncCell", arg |-> n]
makeDecCell(n) == [op |-> "DecCell", arg |-> n]
makeIncPtr(n) == [op |-> "IncPtr", arg |-> n]
makeDecPtr(n) == [op |-> "DecPtr", arg |-> n]
makeRead == [op |-> "Read", arg |-> NoArg]
makeWrite == [op |-> "Write", arg |-> NoArg]
makeWriteCached == [op |-> "WriteCached", arg |-> NoArg]
\* "cached" and "lookup": the closure captures nothing and reads vm.loops
makeLoopOpenMap == [op |-> "LoopOpen", arg |-> NoArg]
makeLoopCloseMap == [op |-> "LoopClose", arg |-> NoArg]
\* "baked": the closure captures the offset
makeLoopOpen(offset) == [op |-> "LoopOpen", arg |-> offset]
makeLoopClose(offset) == [op |-> "LoopClose", arg |-> offset]
\* the nil func value New appends for '[' in "baked" until ']' replaces it
NilFunc == [op |-> "nil", arg |-> NoArg]

(***************************************************************************)
(* New: the compiler.                                                      *)
(***************************************************************************)
\* the inner loop of countRepeats: the first index >= i not holding c
RECURSIVE RepeatEnd(_, _, _)
RepeatEnd(bf, i, c) ==
    IF i < Len(bf) /\ At(bf, i) = c THEN RepeatEnd(bf, i + 1, c) ELSE i

\* a mutant of countRepeats without the "i--" that counters New's "i++"
countRepeats_NoStepBack(bf, i, c) ==
    LET e == RepeatEnd(bf, i, c) IN <<e - i, e>>

\* countRepeats(i, c): <<count, i>> with i left on the last character of the run
countRepeats(bf, i, c) ==
    LET e == RepeatEnd(bf, i, c) IN <<e - i, e - 1>>

\* the choice New makes for '.'
WriteFor(variant, buffer) ==
    IF variant = "cached" \/ buffer THEN makeWriteCached ELSE makeWrite

\* openInstruction := loopStack[len(loopStack)-1], with a mutant that takes
\* the oldest open loop instead
PopLoopStack_Oldest(loopStack) == Head(loopStack)
PopLoopStack(loopStack) == Last(loopStack)

\* the default case of the switch: "Invalid character. ignored.", with a
\* mutant that keeps a slot in the program for the character
IgnoreChar_KeepsSlot(cs) == [cs EXCEPT !.program = Append(@, NilFunc), !.i = @ + 1]
IgnoreChar(cs) == [cs EXCEPT !.i = @ + 1]

\* one iteration of "for i < max": the switch on bf[i], then i++
\* cs = [i, program, loops, loopStack, panic]
CompileChar(bf, variant, buffer, cs) ==
    LET c == At(bf, cs.i)
        n == Len(cs.program)
        rep == countRepeats(bf, cs.i, c)
        emit(ins, j) == [cs EXCEPT !.program = Append(@, ins), !.i = j + 1]
    IN  CASE c = "+" -> emit(makeIncCell(rep[1]), rep[2])
          [] c = "-" -> emit(makeDecCell(rep[1]), rep[2])
          [] c = "<" -> emit(makeDecPtr(rep[1]), rep[2])
          [] c = ">" -> emit(makeIncPtr(rep[1]), rep[2])
          [] c = "," -> emit(makeRead, cs.i)
          [] c = "." -> emit(WriteFor(variant, buffer), cs.i)
          [] c = "[" ->
               [cs EXCEPT !.loopStack = Append(@, n),
                          !.program = Append(@, IF variant = "baked"
                                                 THEN NilFunc
                                                 ELSE makeLoopOpenMap),
                          !.i = @ + 1]
          [] c = "]" ->
               IF cs.loopStack = << >>
               THEN \* loopStack[len(loopStack)-1] with an empty slice
                    [cs EXCEPT !.panic = TRUE]
               ELSE LET openInstruction == PopLoopStack(cs.loopStack) IN
                    IF variant = "baked"
                    THEN [cs EXCEPT
                            !.loopStack = Front(@),
                            !.program = Append(
                                [@ EXCEPT ![openInstruction + 1] = makeLoopOpen(n)],
                                makeLoopClose(openInstruction)),
                            !.i = @ + 1]
                    ELSE [cs EXCEPT
                            !.loopStack = Front(@),
                            !.loops = Put(Put(@, openInstruction, n), n, openInstruction),
                            !.program = Append(@, makeLoopCloseMap),
                            !.i = @ + 1]
          [] OTHER -> IgnoreChar(cs)

RECURSIVE CompileLoop(_, _, _, _)
CompileLoop(bf, variant, buffer, cs) ==
    IF cs.panic \/ ~(cs.i < Len(bf)) THEN cs
    ELSE CompileLoop(bf, variant, buffer, CompileChar(bf, variant, buffer, cs))

\* "Ensure we got a program", with a mutant that lets every source through
IsEmptyProgram_Never(bf) == FALSE
IsEmptyProgram(bf) == Len(bf) < 1

\* "Finally add a fake exit trap to the end of our program", with a mutant
\* that forgets it
AddExitTrap_Forgotten(program) == program
AddExitTrap(program) == Append(program, makeExit)

\* New(bf): [vm, err, panic]; vm = NilVM when an error is returned
New(bf, variant, buffer) ==
    IF IsEmptyProgram(bf)
    THEN [vm |-> NilVM, err |-> "empty program is invalid", panic |-> FALSE]
    ELSE LET cs == CompileLoop(bf, variant, buffer,
                     [i |-> 0, program |-> << >>, loops |-> EmptyMap,
                      loopStack |-> << >>, panic |-> FALSE])
         IN  IF cs.panic
             THEN [vm |-> NilVM, err |-> Nil, panic |-> TRUE]
             ELSE [vm |-> [ip |-> 0, ptr |-> 0, memory |-> EmptyMap,
                           loops |-> cs.loops, stdout |-> << >>,
                           program |-> AddExitTrap(cs.program),
                           err |-> Nil],
                   err |-> Nil, panic |-> FALSE]

(***************************************************************************)
(* Go's conversions of a cell to output bytes.                             *)
(***************************************************************************)
\* the UTF-8 encoding of a valid code point (utf8.AppendRune)
Utf8(r) ==
    IF r < 128 THEN <<r>>
    ELSE IF r < 2048 THEN <<192 + (r \div 64), 128 + (r % 64)>>
    ELSE IF r < 65536
         THEN <<224 + (r \div 4096), 128 + ((r \div 64) % 64), 128 + (r % 64)>>
         ELSE <<240 + (r \div 262144), 128 + ((r \div 4096) % 64),
                128 + ((r \div 64) % 64), 128 + (r % 64)>>

ValidRune(r) == r >= 0 /\ r <= MaxRune /\ ~(r >= 55296 /\ r <= 57343)

EncodeRune(r) == Utf8(IF ValidRune(r) THEN r ELSE RuneError)

\* rune(x) keeps the low 32 bits of an int, read as a signed number: every
\* cell of the model lies in -MaxCell..MaxCell, where that is the cell itself
Int32(x) == x

\* string(v.memory[v.ptr]), the conversion of an int ("cached")
StringOfInt(x) == EncodeRune(x)

\* string(rune(v.memory[v.ptr])) ("lookup", "baked")
StringOfRune(x) == EncodeRune(Int32(x))

\* fmt.Printf("%c", x): fmtC takes uint64(x) and rejects what exceeds MaxRune
FmtC(x) == IF x < 0 \/ x > MaxRune THEN EncodeRune(RuneError) ELSE EncodeRune(x)

\* fmt.Printf("%s\n", s)
PrintLine(s) == s \o <<Newline>>

(***************************************************************************)
(* The closures.  Each takes the execution state x = [vm, console,         *)
(* written] and yields it changed, with ret (the error a "baked" closure   *)
(* returns) and panic (a Go run-time panic ended the process).  console is *)
(* what has reached STDOUT; written is the history of the cells handed to  *)
(* the write closures.                                                     *)
(***************************************************************************)
InMemory(p) == p >= 0 /\ p < MemorySize

\* v.memory[p]; memory holds the nonzero cells only
Load(v, p) == Lookup(v.memory, p)

Store(v, p, val) ==
    [v EXCEPT !.memory =
        IF val = 0
        THEN [j \in (DOMAIN v.memory) \ {p} |-> v.memory[j]]
        ELSE Put(v.memory, p, val)]

Done(x, v) == [vm |-> v, console |-> x.console, written |-> x.written,
               ret |-> Nil, panic |-> FALSE]
Panic(x) == [vm |-> x.vm, console |-> x.console, written |-> x.written,
             ret |-> Nil, panic |-> TRUE]
\* an error: stored in vm.err ("cached", "lookup") or returned ("baked")
Fail(x, variant, e) ==
    IF variant = "baked"
    THEN [vm |-> x.vm, console |-> x.console, written |-> x.written,
          ret |-> e, panic |-> FALSE]
    ELSE [vm |-> [x.vm EXCEPT !.err = e], console |-> x.console,
          written |-> x.written, ret |-> Nil, panic |-> FALSE]

ErrExit == "EXIT"

Exit(x, variant) == Fail(x, variant, ErrExit)

\* a mutant of IncCell that adds one whatever the count
IncCell_IgnoresCount(x, n) ==
    LET v == x.vm IN
    IF ~InMemory(v.ptr) THEN Panic(x)
    ELSE Done(x, [Store(v, v.ptr, Load(v, v.ptr) + 1) EXCEPT !.ip = @ + 1])

\* a mutant of IncCell on 8-bit cells
IncCell_Wraps(x, n) ==
    LET v == x.vm IN
    IF ~InMemory(v.ptr) THEN Panic(x)
    ELSE Done(x, [Store(v, v.ptr, (Load(v, v.ptr) + n) % 256) EXCEPT !.ip = @ + 1])

IncCell(x, n) ==
    LET v == x.vm IN
    IF ~InMemory(v.ptr) THEN Panic(x)
    ELSE Done(x, [Store(v, v.ptr, Load(v, v.ptr) + n) EXCEPT !.ip = @ + 1])

DecCell(x, n) ==
    LET v == x.vm IN
    IF ~InMemory(v.ptr) THEN Panic(x)
    ELSE Done(x, [Store(v, v.ptr, Load(v, v.ptr) - n) EXCEPT !.ip = @ + 1])

\* a mutant of IncPtr without the v.ip++
IncPtr_Stays(x, n) == Done(x, [x.vm EXCEPT !.ptr = @ + n])

IncPtr(x, n) == Done(x, [x.vm EXCEPT !.ptr = @ + n, !.ip = @ + 1])

DecPtr(x, n) == Done(x, [x.vm EXCEPT !.ptr = @ - n, !.ip = @ + 1])

\* a mutant of Read that steps past the instruction when the read fails
Read_SkipsOnError(x, variant, r) ==
    LET v == x.vm
        skipped == [x EXCEPT !.vm = [v EXCEPT !.ip = @ + 1]]
    IN  IF r.err # Nil THEN Fail(skipped, variant, r.err)
        ELSE IF r.l # 1 THEN Fail(skipped, variant, "read 0 bytes of input, not 1")
        ELSE IF ~InMemory(v.ptr) THEN Panic(x)
        ELSE Done(x, [Store(v, v.ptr, r.b) EXCEPT !.ip = @ + 1])

\* r = [l, err, b] is what os.Stdin.Read(buf) gave: l bytes read, the error,
\* and buf[0]
Read(x, variant, r) ==
    LET v == x.vm IN
    IF r.err # Nil THEN Fail(x, variant, r.err)
    ELSE IF r.l # 1 THEN Fail(x, variant, "read 0 bytes of input, not 1")
    ELSE IF ~InMemory(v.ptr) THEN Panic(x)
    ELSE Done(x, [Store(v, v.ptr, r.b) EXCEPT !.ip = @ + 1])

Write(x) ==
    LET v == x.vm IN
    IF ~InMemory(v.ptr) THEN Panic(x)
    ELSE [vm |-> [v EXCEPT !.ip = @ + 1],
          console |-> x.console \o FmtC(Load(v, v.ptr)),
          written |-> Append(x.written, Load(v, v.ptr)),
          ret |-> Nil, panic |-> FALSE]

WriteCached(x, variant) ==
    LET v == x.vm IN
    IF ~InMemory(v.ptr) THEN Panic(x)
    ELSE LET c == Load(v, v.ptr) IN
         IF c = Newline
         THEN [vm |-> [v EXCEPT !.stdout = << >>, !.ip = @ + 1],
               console |-> x.console \o PrintLine(v.stdout),
               written |-> Append(x.written, c),
               ret |-> Nil, panic |-> FALSE]
         ELSE [vm |-> [v EXCEPT !.stdout = @ \o (IF variant = "cached"
                                                  THEN StringOfInt(c)
                                                  ELSE StringOfRune(c)),
                                !.ip = @ + 1],
               console |-> x.console,
               written |-> Append(x.written, c),
               ret |-> Nil, panic |-> FALSE]

\* where a loop closure jumps: its captured offset, or v.loops[v.ip]
\* a mutant of JumpTarget: the map-lookup engines land one past the entry
JumpTarget_OnePast(v, variant, offset) ==
    IF variant = "baked" THEN offset ELSE Lookup(v.loops, v.ip) + 1

JumpTarget(v, variant, offset) ==
    IF variant = "baked" THEN offset ELSE Lookup(v.loops, v.ip)

\* a mutant of LoopOpen with the test inverted
LoopOpen_Inverted(x, variant, offset) ==
    LET v == x.vm IN
    IF ~InMemory(v.ptr) THEN Panic(x)
    ELSE IF Load(v, v.ptr) = 0 THEN Done(x, [v EXCEPT !.ip = @ + 1])
    ELSE Done(x, [v EXCEPT !.ip = JumpTarget(v, variant, offset)])

LoopOpen(x, variant, offset) ==
    LET v == x.vm IN
    IF ~InMemory(v.ptr) THEN Panic(x)
    ELSE IF Load(v, v.ptr) # 0 THEN Done(x, [v EXCEPT !.ip = @ + 1])
    ELSE Done(x, [v EXCEPT !.ip = JumpTarget(v, variant, offset)])

\* a mutant of LoopClose that never jumps back: every loop body runs once
LoopClose_Once(x, variant, offset) ==
    IF ~InMemory(x.vm.ptr) THEN Panic(x)
    ELSE Done(x, [x.vm EXCEPT !.ip = @ + 1])

LoopClose(x, variant, offset) ==
    LET v == x.vm IN
    IF ~InMemory(v.ptr) THEN Panic(x)
    ELSE IF Load(v, v.ptr) = 0 THEN Done(x, [v EXCEPT !.ip = @ + 1])
    ELSE Done(x, [v EXCEPT !.ip = JumpTarget(v, variant, offset)])

\* code[vm.ip](vm)
Call(ins, x, variant, r) ==
    CASE ins.op = "Exit" -> Exit(x, variant)
      [] ins.op = "IncCell" -> IncCell(x, ins.arg)
      [] ins.op = "DecCell" -> DecCell(x, ins.arg)
      [] ins.op = "IncPtr" -> IncPtr(x, ins.arg)
      [] ins.op = "DecPtr" -> DecPtr(x, ins.arg)
      [] ins.op = "Read" -> Read(x, variant, r)
      [] ins.op = "Write" -> Write(x)
      [] ins.op = "WriteCached" -> WriteCached(x, variant)
      [] ins.op = "LoopOpen" -> LoopOpen(x, variant, ins.arg)
      [] ins.op = "LoopClose" -> LoopClose(x, variant, ins.arg)
      [] OTHER -> Panic(x)   \* a call of the nil func value

(***************************************************************************)
(* RunProgram.                                                             *)
(***************************************************************************)
\* "Show any pending output": unconditional in "cached", of a non-empty
\* buffer in "lookup" and "baked"
\* shown: the buffers this printed, one entry per Printf
ShowPending_KeepsBuffer(e, variant) ==
    [vm |-> e.vm, console |-> e.console \o PrintLine(e.vm.stdout),
     written |-> e.written, shown |-> <<e.vm.stdout>>]
ShowPending(e, variant) ==
    IF variant = "cached" \/ e.vm.stdout # << >>
    THEN [vm |-> [e.vm EXCEPT !.stdout = << >>],
          console |-> e.console \o PrintLine(e.vm.stdout),
          written |-> e.written, shown |-> <<e.vm.stdout>>]
    ELSE [vm |-> e.vm, console |-> e.console, written |-> e.written,
          shown |-> << >>]

\* "If it is the fake exit-program error then we ignore it", with a mutant
\* that returns every error
Result_Unfiltered(err) == err
Result(err) == IF err = ErrExit THEN Nil ELSE err

\* the error the loop tests after the call: vm.err, or the returned error
LoopErr(e, variant) == IF variant = "baked" THEN e.ret ELSE e.vm.err

\* one iteration of the loop of RunProgram: the call, then the error test.
\* Yields [vm, console, written, pc, ret, shown].
RunProgramStep(x, variant, r) ==
    LET v == x.vm
        here(state, result) ==
            [vm |-> x.vm, console |-> x.console, written |-> x.written,
             pc |-> state, ret |-> result, shown |-> << >>]
    IN  IF variant # "baked" /\ ~(v.ip < Len(v.program))
        THEN here("returned", Nil)              \* the for condition fails
        ELSE IF v.ip < 0 \/ ~(v.ip < Len(v.program))
        THEN here("panic", Nil)                 \* index out of range
        ELSE LET e == Call(At(v.program, v.ip), x, variant, r)
                 err == LoopErr(e, variant)
                 f == ShowPending(e, variant)
             IN  IF e.panic
                 THEN [vm |-> e.vm, console |-> e.console, written |-> e.written,
                       pc |-> "panic", ret |-> Nil, shown |-> << >>]
                 ELSE IF err # Nil
                 THEN [vm |-> f.vm, console |-> f.console, written |-> f.written,
                       pc |-> "returned", ret |-> Result(err), shown |-> f.shown]
                 ELSE [vm |-> e.vm, console |-> e.console, written |-> e.written,
                       pc |-> "loop", ret |-> Nil, shown |-> << >>]

(***************************************************************************)
(* The state machine.                                                      *)
(***************************************************************************)
VARIABLES
    variant,    \* which iteration of the VM
    buffer,     \* BUFFER_STDOUT is not "false"
    bf,         \* the source text given to New
    pc,         \* "new", "failed", "compiled", "start", "loop", "returned", "panic"
    vm,         \* the *VM that New returned
    newErr,     \* the error that New returned
    console,    \* the bytes that reached STDOUT in the current run
    written,    \* the cells handed to the write closures in the current run
    input,      \* STDIN as far as reads have revealed it
    pos,        \* how many reads the current run has made
    ret,        \* what RunProgram returned
    runs,       \* how many times RunProgram was invoked
    log,        \* one record per earlier run of this VM
    flushes,    \* the buffers "show any pending output" printed in this run
    calc,       \* the *VM of the stack machine: [stack, program, err]
    ip,         \* the ip of the stack machine's RunProgram
    cpc,        \* the stack machine: "new", "loop", "returned"
    printed,    \* the lines the stack machine printed in the current run
    cret,       \* what the stack machine's RunProgram returned
    cruns       \* how many times the stack machine's RunProgram was invoked

calcVars == <<calc, ip, cpc, printed, cret, cruns>>

bfVars == <<variant, buffer, bf, pc, vm, newErr, console, written, input, pos,
            ret, runs, log, flushes>>

vars == <<bfVars, calcVars>>

\* the stack machine before New(prog)
NoCalc == [stack |-> << >>, program |-> << >>, err |-> Nil]

\* the stack machine is not part of this program
CalcIdle ==
    /\ calc = NoCalc
    /\ ip = 0
    /\ cpc = "idle"
    /\ printed = << >>
    /\ cret = Nil
    /\ cruns = 0

Rep(c, n) == [i \in 1..n |-> c]

\* sources beyond the enumerated ones
Programs ==
    { <<"+", "[", "-", "]">>,
      <<",", "[", "-", "]">>,
      Rep("+", 8) \o <<"[", ">">> \o Rep("+", 8) \o <<"<", "-", "]", ">", ".">>,
      <<"+", "+", "[", ">", "+", "[", "-", "]", "<", "-", "]">>,
      <<",", "[", ".", ",", "]">>,
      <<"+", "[", "-", "]", "[", "+", "]", ".">>,
      <<",", "+", ".">>,
      <<"+", "x", "+", "[", ">", "x", "+", "<", "-", "]", ">", ".">>,
      <<",", "[", "+", "]">> }

SourcesUpTo(n) == UNION {[1..k -> Alphabet] : k \in 0..n}

\* what one os.Stdin.Read can give
InputBytes == {0, Newline, 255}
ReadResults ==
    {[l |-> 1, err |-> Nil, b |-> b] : b \in InputBytes}
    \cup {[l |-> 0, err |-> "EOF", b |-> 0], [l |-> 0, err |-> Nil, b |-> 0]}
NoRead == [l |-> 0, err |-> Nil, b |-> 0]

InitWith(sources) ==
    /\ variant \in Variants
    /\ buffer \in (IF variant = "cached" THEN {TRUE} ELSE BOOLEAN)
    /\ bf \in sources
    /\ pc = "new"
    /\ vm = NilVM
    /\ newErr = Nil
    /\ console = << >>
    /\ written = << >>
    /\ input = << >>
    /\ pos = 0
    /\ ret = Nil
    /\ runs = 0
    /\ log = << >>
    /\ flushes = << >>
    /\ CalcIdle

Init == InitWith(SourcesUpTo(MaxLen) \cup Programs)

InitCompile == InitWith(SourcesUpTo(MaxCompileLen))

\* v, err := New(string(dat))
Compile ==
    /\ pc = "new"
    /\ LET c == New(bf, variant, buffer) IN
         /\ vm' = c.vm
         /\ newErr' = c.err
         /\ pc' = IF c.panic THEN "panic"
                  ELSE IF c.err # Nil THEN "failed" ELSE "compiled"
    /\ UNCHANGED <<variant, buffer, bf, console, written, input, pos, ret,
                   runs, log, flushes, calcVars>>

\* the entry of RunProgram: "Reset the state of the program each run."
RunProgram ==
    /\ pc \in {"compiled", "returned"}
    /\ runs < MaxRuns
    /\ vm' = [vm EXCEPT !.ptr = 0, !.ip = 0]
    /\ pc' = "start"
    /\ runs' = runs + 1
    /\ log' = IF runs = 0 THEN log
              ELSE Append(log, [console |-> console, written |-> written,
                                ret |-> ret, memory |-> vm.memory])
    /\ console' = << >>
    /\ written' = << >>
    /\ pos' = 0
    /\ ret' = Nil
    /\ flushes' = << >>
    /\ UNCHANGED <<variant, buffer, bf, newErr, input, calcVars>>

\* the bounds of the model
WithinBounds(n) ==
    \/ n.pc = "panic"
    \/ /\ n.vm.ptr <= MaxPtr
       /\ \A p \in DOMAIN n.vm.memory :
            n.vm.memory[p] <= MaxCell /\ n.vm.memory[p] >= 0 - MaxCell
       /\ Len(n.written) <= MaxOut

IsRead == vm.ip >= 0 /\ vm.ip < Len(vm.program) /\ At(vm.program, vm.ip).op = "Read"

\* one iteration of the loop of RunProgram
Step ==
    /\ pc \in {"start", "loop"}
    /\ \E r \in (IF ~IsRead THEN {NoRead}
                 ELSE IF pos < Len(input) THEN {At(input, pos)}
                 ELSE ReadResults) :
         LET n == RunProgramStep([vm |-> vm, console |-> console,
                                  written |-> written], variant, r)
         IN  /\ WithinBounds(n)
             /\ IsRead => pos < MaxIn
             /\ vm' = n.vm
             /\ console' = n.console
             /\ written' = n.written
             /\ pc' = n.pc
             /\ ret' = n.ret
             /\ flushes' = flushes \o n.shown
             /\ input' = IF IsRead /\ ~(pos < Len(input))
                         THEN Append(input, r) ELSE input
             /\ pos' = IF IsRead THEN pos + 1 ELSE pos
    /\ UNCHANGED <<variant, buffer, bf, newErr, runs, log, calcVars>>

Next == Compile \/ RunProgram \/ Step

Spec == Init /\ [][Next]_vars

\* New alone, on longer sources
SpecCompile == InitCompile /\ [][Compile]_vars

(***************************************************************************)
(* Brackets of a source text and loops of a program.                       *)
(***************************************************************************)
\* '[' minus ']' among the first k characters of the source
Depth(src, k) ==
    Cardinality({i \in 1..k : src[i] = "["}) - Cardinality({i \in 1..k : src[i] = "]"})

Balanced(src) ==
    /\ \A k \in 1..Len(src) : Depth(src, k) >= 0
    /\ Depth(src, Len(src)) = 0

\* a ']' with no open loop
ExcessClose(src) == \E k \in 1..Len(src) : Depth(src, k) < 0

\* no excess ']', and a '[' that is never closed
Unclosed(src) == ~ExcessClose(src) /\ Depth(src, Len(src)) > 0

\* LoopOpen minus LoopClose among the instructions a..b of a program
ProgDepth(program, a, b) ==
    Cardinality({i \in a..b : At(program, i).op \in {"LoopOpen", "nil"}})
      - Cardinality({i \in a..b : At(program, i).op = "LoopClose"})

IsOpen(program, k) == At(program, k).op = "LoopOpen"

\* the LoopClose matching the LoopOpen at k: the first at which the depth
\* counted from k returns to zero
MatchClose(program, k) ==
    CHOOSE j \in (k + 1)..(Len(program) - 1) :
        /\ ProgDepth(program, k, j) = 0
        /\ \A i \in (k + 1)..(j - 1) : ProgDepth(program, k, i) > 0

\* the jump target of the loop instruction at k
Target(v, k) ==
    IF variant = "baked" THEN At(v.program, k).arg ELSE Lookup(v.loops, k)

OpenIndices(program) == {k \in 0..(Len(program) - 1) : IsOpen(program, k)}

(***************************************************************************)
(* C1, as claimed: for every non-empty balanced source New succeeds, and   *)
(* the target of each LoopOpen is the index of its matching LoopClose plus *)
(* one, the target of each LoopClose the index of its matching LoopOpen    *)
(* plus one.                                                               *)
(***************************************************************************)
C1_TargetsOnePast ==
    (pc # "new" /\ Len(bf) > 0 /\ Balanced(bf)) =>
        /\ pc = "compiled"
        /\ \A k \in OpenIndices(vm.program) :
             LET j == MatchClose(vm.program, k) IN
                /\ Target(vm, k) = j + 1
                /\ Target(vm, j) = k + 1

(***************************************************************************)
(* C1, amended: for every non-empty balanced source New succeeds, and the  *)
(* target of each LoopOpen is the index of its matching LoopClose, the     *)
(* target of each LoopClose the index of its matching LoopOpen.            *)
(***************************************************************************)
C1_TargetsAtMatch ==
    (pc # "new" /\ Len(bf) > 0 /\ Balanced(bf)) =>
        /\ pc = "compiled"
        /\ \A k \in OpenIndices(vm.program) :
             LET j == MatchClose(vm.program, k) IN
                /\ Target(vm, k) = j
                /\ Target(vm, j) = k

\* a compiled source with one loop nested in another
C1_Witness ==
    /\ pc = "compiled"
    /\ Balanced(bf)
    /\ \E k1, k2 \in OpenIndices(vm.program) :
          /\ k1 < k2
          /\ MatchClose(vm.program, k2) < MatchClose(vm.program, k1)
          /\ Target(vm, k1) = MatchClose(vm.program, k1)

(***************************************************************************)
(* C3, as claimed: compiling a source with a ']' that no '[' opens fails   *)
(* with a compile error; it never crashes.                                 *)
(***************************************************************************)
C3_ExcessCloseIsError ==
    (pc # "new" /\ ExcessClose(bf)) => (pc = "failed" /\ newErr # Nil)

(***************************************************************************)
(* C4, as claimed: compiling a source that ends with a '[' still open      *)
(* fails with a compile error and returns no Program.                      *)
(***************************************************************************)
C4_UnclosedIsError ==
    (pc # "new" /\ Unclosed(bf)) =>
        (pc = "failed" /\ newErr # Nil /\ vm = NilVM)

(***************************************************************************)
(* C5: New applied to a source of length 0 fails with the empty-program    *)
(* error and returns no VM, hence no Program.                              *)
(***************************************************************************)
C5_EmptyProgram ==
    (pc # "new" /\ Len(bf) = 0) =>
        (pc = "failed" /\ newErr = "empty program is invalid" /\ vm = NilVM)

C5_Witness == pc = "failed" /\ Len(bf) = 0

(***************************************************************************)
(* The reference interpreter of C2.  It reads the source text character by *)
(* character, one primitive per character, and executes '[' body ']' as    *)
(* while (tape[ptr] != 0) { body }.  rs = [ptr, memory, written, pos,      *)
(* status, err]; status is "ok", "error" (a read failed), "panic" (a cell  *)
(* outside the tape was touched), "fuel" (a loop was cut short) or "input" *)
(* (STDIN was not revealed that far).                                      *)
(***************************************************************************)
RefCell(rs) == Lookup(rs.memory, rs.ptr)

RefStore(rs, val) ==
    [rs EXCEPT !.memory =
        IF val = 0
        THEN [j \in (DOMAIN rs.memory) \ {rs.ptr} |-> rs.memory[j]]
        ELSE Put(rs.memory, rs.ptr, val)]

RefPrim(c, stdin, rs) ==
    CASE c = ">" -> [rs EXCEPT !.ptr = @ + 1]
      [] c = "<" -> [rs EXCEPT !.ptr = @ - 1]
      [] c \in {"+", "-", "."} /\ ~InMemory(rs.ptr) -> [rs EXCEPT !.status = "panic"]
      [] c = "+" -> RefStore(rs, RefCell(rs) + 1)
      [] c = "-" -> RefStore(rs, RefCell(rs) - 1)
      [] c = "." -> [rs EXCEPT !.written = Append(@, RefCell(rs))]
      [] c = "," ->
           IF ~(rs.pos < Len(stdin)) THEN [rs EXCEPT !.status = "input"]
           ELSE LET r == At(stdin, rs.pos) IN
                IF r.err # Nil THEN [rs EXCEPT !.status = "error", !.err = r.err]
                ELSE IF r.l # 1
                THEN [rs EXCEPT !.status = "error",
                                !.err = "read 0 bytes of input, not 1"]
                ELSE IF ~InMemory(rs.ptr) THEN [rs EXCEPT !.status = "panic"]
                ELSE [RefStore(rs, r.b) EXCEPT !.pos = @ + 1]
      [] OTHER -> rs

\* the index of the ']' closing the '[' at index i of a balanced source
RefMatch(src, i) ==
    CHOOSE m \in (i + 1)..(Len(src) - 1) :
        /\ Depth(src, m + 1) = Depth(src, i)
        /\ \A k \in (i + 1)..(m - 1) : Depth(src, k + 1) > Depth(src, i)

RECURSIVE RefExec(_, _, _, _, _)
RECURSIVE RefTimes(_, _, _, _, _, _)

\* the loop test no longer lets the body run: the state is not "ok", the
\* pointer is off the tape, or the cell is zero
RefDone(rs) ==
    rs.status # "ok" \/ ~InMemory(rs.ptr) \/ RefCell(rs) = 0

\* while (tape[ptr] != 0) { the characters a..b-1 }; the body runs at most
\* 2^RefFuel times
RefWhile(src, stdin, a, b, rs) ==
    LET r == RefTimes(src, stdin, a, b, rs, RefFuel) IN
    IF r.status # "ok" THEN r
    ELSE IF ~InMemory(r.ptr) THEN [r EXCEPT !.status = "panic"]
    ELSE IF RefCell(r) = 0 THEN r
    ELSE [r EXCEPT !.status = "fuel"]

\* the characters i..j-1 of the source, in sequence
RefExec(src, stdin, i, j, rs) ==
    IF rs.status # "ok" \/ ~(i < j) THEN rs
    ELSE IF At(src, i) = "["
    THEN LET m == RefMatch(src, i) IN
         RefExec(src, stdin, m + 1, j, RefWhile(src, stdin, i + 1, m, rs))
    ELSE RefExec(src, stdin, i + 1, j, RefPrim(At(src, i), stdin, rs))

\* up to 2^k iterations of the loop whose body is the characters a..b-1,
\* stopping as soon as the loop test fails
RefTimes(src, stdin, a, b, rs, k) ==
    IF RefDone(rs) THEN rs
    ELSE IF k = 0 THEN RefExec(src, stdin, a, b, rs)
    ELSE RefTimes(src, stdin, a, b,
                  RefTimes(src, stdin, a, b, rs, k - 1), k - 1)

RefRun(src, stdin) ==
    RefExec(src, stdin, 0, Len(src),
            [ptr |-> 0, memory |-> EmptyMap, written |-> << >>, pos |-> 0,
             status |-> "ok", err |-> Nil])

(***************************************************************************)
(* C2: for every balanced source, the first run of the compiled program    *)
(* (from a zeroed tape) ends with the same tape, pointer and written       *)
(* characters, and the same outcome, as the reference interpreter that     *)
(* executes '[' body ']' as while (tape[ptr] != 0) { body }.               *)
(***************************************************************************)
C2_LoopsAreWhile ==
    (pc \in {"returned", "panic"} /\ runs = 1 /\ Balanced(bf)) =>
        LET rs == RefRun(bf, input) IN
           /\ rs.memory = vm.memory
           /\ rs.ptr = vm.ptr
           /\ rs.written = written
           /\ rs.status = (IF pc = "panic" THEN "panic"
                           ELSE IF ret = Nil THEN "ok" ELSE "error")
           /\ rs.err = ret

\* a run that went through a loop body at least twice and wrote a character
C2_Witness ==
    /\ pc = "returned" /\ runs = 1 /\ ret = Nil
    /\ bf = Rep("+", 8) \o <<"[", ">">> \o Rep("+", 8) \o <<"<", "-", "]", ">", ".">>
    /\ written = <<64>>

(***************************************************************************)
(* C6, as claimed: with buffering enabled, the bytes that have reached the *)
(* output when a run has returned are exactly the characters written, in   *)
(* order, nothing dropped and nothing added.                               *)
(***************************************************************************)
RECURSIVE BytesOf(_, _)
BytesOf(cells, v) ==
    IF cells = << >> THEN << >>
    ELSE (IF v = "cached" THEN StringOfInt(Head(cells)) ELSE StringOfRune(Head(cells)))
         \o BytesOf(Tail(cells), v)

Buffering == variant = "cached" \/ buffer

C6_OutputIsWhatWasWritten ==
    (pc = "returned" /\ runs = 1 /\ Buffering) => console = BytesOf(written, variant)

(***************************************************************************)
(* C7, as claimed: two runs in succession of the same compiled program on  *)
(* identical input give byte-identical output.                             *)
(***************************************************************************)
C7_SecondRunSameOutput ==
    (pc = "returned" /\ runs = 2) => console = log[1].console

(***************************************************************************)
(* C8, as claimed: every invocation of RunProgram begins with ip = 0,      *)
(* ptr = 0 and a tape whose cells are all zero.                            *)
(***************************************************************************)
C8_RunStartsFresh ==
    pc = "start" => (vm.ip = 0 /\ vm.ptr = 0 /\ vm.memory = EmptyMap)

(***************************************************************************)
(* C9: when a Read executes and STDIN is exhausted (or the read is short), *)
(* RunProgram returns the read failure, and tape, pointer and ip are what  *)
(* they were before the instruction.                                       *)
(***************************************************************************)
ReadFailed(r) == r.err # Nil \/ r.l # 1

C9_ReadFailure ==
    [][(pc \in {"start", "loop"} /\ IsRead /\ pos' = pos + 1
          /\ ReadFailed(At(input', pos)))
       => (/\ pc' = "returned"
           /\ ret' = (IF At(input', pos).err # Nil THEN At(input', pos).err
                      ELSE "read 0 bytes of input, not 1")
           /\ vm'.memory = vm.memory
           /\ vm'.ptr = vm.ptr
           /\ vm'.ip = vm.ip)]_vars

\* a run ended by end of input at a Read, with a cell already set
C9_Witness ==
    /\ pc = "returned" /\ ret = "EOF" /\ IsRead /\ runs = 1
    /\ vm.memory # EmptyMap

(***************************************************************************)
(* C10, as claimed: in every state of a run the pointer lies within        *)
(* [0, capacity).                                                          *)
(***************************************************************************)
C10_PointerInRange ==
    (pc \in {"start", "loop", "returned"}) => InMemory(vm.ptr)

(***************************************************************************)
(* Runs of a source text.                                                  *)
(***************************************************************************)
Commands == {"+", "-", "<", ">", ",", ".", "[", "]"}
Folded == {"+", "-", "<", ">"}
FoldedOps == {"IncCell", "DecCell", "IncPtr", "DecPtr"}

\* position k (from 1) of src starts a unit of compilation: a command that
\* is not the continuation of a run of a folded command
StartsRun(src, k) ==
    /\ src[k] \in Commands
    /\ (src[k] \in Folded /\ k > 1) => src[k - 1] # src[k]

RunStarts(src) == {k \in 1..Len(src) : StartsRun(src, k)}

\* the length of the maximal run of src[k] that begins at k
RunLength(src, k) ==
    CHOOSE n \in 1..(Len(src) - k + 1) :
        /\ \A j \in 0..(n - 1) : src[k + j] = src[k]
        /\ (k + n <= Len(src)) => src[k + n] # src[k]

\* the j-th (from 1) run start of src
NthStart(src, j) ==
    CHOOSE k \in RunStarts(src) :
        Cardinality({m \in RunStarts(src) : m <= k}) = j

\* the kind of instruction a folded command character stands for
KindOf(c) ==
    CASE c = "+" -> "IncCell"
      [] c = "-" -> "DecCell"
      [] c = "<" -> "DecPtr"
      [] c = ">" -> "IncPtr"

(***************************************************************************)
(* C11: each maximal run of k >= 1 identical consecutive characters among  *)
(* + - < > compiles to exactly one instruction of the matching kind with   *)
(* count k, and the scan resumes at the first character after the run, so  *)
(* that the instructions of the program are, in order, those of the run    *)
(* starts of the source; "+++" compiles to [IncCell(3), Exit].             *)
(***************************************************************************)
C11_RunsFold ==
    pc = "compiled" =>
        /\ Len(vm.program) = Cardinality(RunStarts(bf)) + 1
        /\ \A j \in 1..Cardinality(RunStarts(bf)) :
             LET k == NthStart(bf, j)
                 ins == vm.program[j]
             IN  IF bf[k] \in Folded
                 THEN ins = [op |-> KindOf(bf[k]), arg |-> RunLength(bf, k)]
                 ELSE ins.op \notin FoldedOps
        /\ bf = <<"+", "+", "+">> => vm.program = <<makeIncCell(3), makeExit>>

C11_Witness ==
    /\ pc = "compiled"
    /\ bf = <<"+", "+", "+">>
    /\ vm.program = <<makeIncCell(3), makeExit>>

(***************************************************************************)
(* C12: executing one folded instruction with count n leaves the same tape *)
(* and the same pointer as executing the count-1 instruction of that kind  *)
(* n times from the same state (and ends in a panic exactly when those     *)
(* do).                                                                    *)
(***************************************************************************)
\* the count-1 instruction of kind op, n times in a row
RECURSIVE Repeated(_, _, _)
Repeated(op, x, n) ==
    IF n = 0 THEN Done(x, x.vm)
    ELSE LET e == Call([op |-> op, arg |-> 1], x, "baked", NoRead)
         IN  IF e.panic THEN e
             ELSE Repeated(op, [vm |-> e.vm, console |-> e.console,
                                written |-> e.written], n - 1)

AtFolded ==
    /\ pc \in {"start", "loop"}
    /\ vm.ip >= 0 /\ vm.ip < Len(vm.program)
    /\ At(vm.program, vm.ip).op \in FoldedOps

C12_FoldedIsRepeated ==
    [][(AtFolded /\ pc' \in {"loop", "returned", "panic"}) =>
          LET ins == At(vm.program, vm.ip)
              u == Repeated(ins.op, [vm |-> vm, console |-> console,
                                     written |-> written], ins.arg)
          IN  /\ (pc' = "panic") = u.panic
              /\ ~u.panic => /\ vm'.memory = u.vm.memory
                             /\ vm'.ptr = u.vm.ptr]_vars

\* the eight folded "+" of the '@' program have run
C12_Witness ==
    /\ pc = "loop"
    /\ runs = 1
    /\ vm.ip = 1
    /\ At(vm.program, 0) = makeIncCell(8)
    /\ Lookup(vm.memory, 0) = 8

(***************************************************************************)
(* C13: every program New returns ends with Exit and contains exactly one  *)
(* Exit.                                                                   *)
(***************************************************************************)
C13_OneExitAtEnd ==
    pc = "compiled" =>
        /\ Len(vm.program) >= 1
        /\ {k \in 1..Len(vm.program) : vm.program[k].op = "Exit"}
              = {Len(vm.program)}

C13_Witness ==
    /\ pc = "compiled"
    /\ Len(vm.program) = 4
    /\ vm.program[4] = makeExit

(***************************************************************************)
(* C14: when execution reaches Exit the run ends and RunProgram reports    *)
(* success; ErrExit itself is never what RunProgram returns, and a failed  *)
(* read is never turned into success.                                      *)
(***************************************************************************)
AtExit ==
    /\ pc \in {"start", "loop"}
    /\ vm.ip >= 0 /\ vm.ip < Len(vm.program)
    /\ At(vm.program, vm.ip).op = "Exit"

C14_ExitIsSuccess ==
    [][/\ (AtExit /\ pc' # pc) => (pc' = "returned" /\ ret' = Nil)
       /\ ret' # ErrExit
       /\ (pc \in {"start", "loop"} /\ IsRead /\ pos' = pos + 1
             /\ ReadFailed(At(input', pos))) =>
              (pc' = "returned" /\ ret' # Nil)]_vars

\* a first run that ended at the Exit of a program with a loop
C14_Witness ==
    /\ pc = "returned"
    /\ ret = Nil
    /\ runs = 1
    /\ bf = <<"+", "[", "-", "]">>
    /\ At(vm.program, vm.ip).op = "Exit"

(***************************************************************************)
(* C15, as claimed: with buffering enabled, when a run ends, by Exit or by *)
(* a runtime error, the pending output is shown exactly once before        *)
(* RunProgram returns, whether or not the buffer holds characters, and the *)
(* buffer is empty when RunProgram returns.                                *)
(***************************************************************************)
C15_FlushedExactlyOnce ==
    (pc = "returned" /\ Buffering) =>
        (Len(flushes) = 1 /\ vm.stdout = << >>)

(***************************************************************************)
(* C15, amended: with buffering enabled, when a run ends, by Exit or by a  *)
(* runtime error, the buffer is empty when RunProgram returns and the      *)
(* pending output was shown at most once: exactly once in the iteration    *)
(* that always buffers, and in the iterations with BUFFER_STDOUT only when *)
(* the buffer held characters.                                             *)
(***************************************************************************)
C15_FlushedAtMostOnce ==
    (pc = "returned" /\ Buffering) =>
        /\ vm.stdout = << >>
        /\ Len(flushes) <= 1
        /\ variant = "cached" => Len(flushes) = 1
        /\ variant # "cached" => \A k \in 1..Len(flushes) : flushes[k] # << >>

\* the '@' program left its character in the buffer until Exit
C15_Witness ==
    /\ pc = "returned"
    /\ variant = "baked"
    /\ buffer
    /\ flushes = <<Utf8(64)>>
    /\ vm.stdout = << >>

(***************************************************************************)
(* New and RunProgram as one function of the source and of STDIN, for      *)
(* comparing the runs of two sources.                                      *)
(***************************************************************************)
\* the loop of RunProgram from x = [vm, console, written], reading stdin
\* from p on; pc is "fuel" if it is cut short, "starved" if it reads past
\* what stdin holds
RECURSIVE RunLoop(_, _, _, _, _)
RunLoop(x, iteration, stdin, p, fuel) ==
    LET v == x.vm
        reads == /\ v.ip >= 0 /\ v.ip < Len(v.program)
                 /\ At(v.program, v.ip).op = "Read"
        cut(state) == [vm |-> x.vm, console |-> x.console,
                       written |-> x.written, pc |-> state, ret |-> Nil,
                       shown |-> << >>]
    IN  IF fuel = 0 THEN cut("fuel")
        ELSE IF reads /\ ~(p < Len(stdin)) THEN cut("starved")
        ELSE LET n == RunProgramStep(x, iteration,
                                     IF reads THEN At(stdin, p) ELSE NoRead)
             IN  IF n.pc # "loop" THEN n
                 ELSE RunLoop([vm |-> n.vm, console |-> n.console,
                               written |-> n.written], iteration, stdin,
                              IF reads THEN p + 1 ELSE p, fuel - 1)

\* New(src), then the first RunProgram
RunSource(src, iteration, buffered, stdin) ==
    LET c == New(src, iteration, buffered)
        none(state) == [vm |-> NilVM, console |-> << >>, written |-> << >>,
                        pc |-> state, ret |-> Nil, shown |-> << >>]
    IN  IF c.panic THEN none("panic")
        ELSE IF c.err # Nil THEN none("failed")
        ELSE RunLoop([vm |-> [c.vm EXCEPT !.ptr = 0, !.ip = 0],
                      console |-> << >>, written |-> << >>],
                     iteration, stdin, 0, RunFuel)

\* src with the characters that are no commands deleted
Strip(src) == SelectSeq(src, LAMBDA c : c \in Commands)

HasComment(src) == \E k \in 1..Len(src) : src[k] \notin Commands

\* the first run of bf ended as the first run of Strip(bf) does
SameAsStripped ==
    LET o == RunSource(Strip(bf), variant, buffer, input) IN
    /\ o.pc = pc
    /\ pc = "returned" => /\ o.vm.memory = vm.memory
                          /\ o.vm.ptr = vm.ptr
                          /\ o.console = console
                          /\ o.ret = ret

(***************************************************************************)
(* C16, as claimed: characters that are no commands are never a compile    *)
(* error and emit no instruction, and a source containing them runs to the *)
(* same final tape, pointer and output as the same source with those       *)
(* characters deleted.                                                     *)
(***************************************************************************)
C16_CommentsDeleted ==
    HasComment(bf) =>
        /\ pc # "failed"
        /\ pc = "compiled" => Len(vm.program) - 1 <= Len(Strip(bf))
        /\ (pc \in {"returned", "panic"} /\ runs <= 1) => SameAsStripped

(***************************************************************************)
(* C16, amended: characters that are no commands are never a compile error *)
(* and emit no instruction, and a source containing them and at least one  *)
(* command runs to the same final tape, pointer and output as the same     *)
(* source with those characters deleted, even where the deletion merges    *)
(* two runs into one folded instruction.  (A source of such characters     *)
(* only compiles and runs, while the empty source is rejected.)            *)
(***************************************************************************)
C16_CommentsIgnored ==
    HasComment(bf) =>
        /\ pc # "failed"
        /\ pc = "compiled" => Len(vm.program) - 1 <= Len(Strip(bf))
        /\ (pc \in {"returned", "panic"} /\ runs <= 1 /\ Strip(bf) # << >>)
              => SameAsStripped
        /\ (pc = "returned" /\ runs = 1 /\ Strip(bf) = << >>) =>
              (ret = Nil /\ vm.memory = EmptyMap /\ vm.ptr = 0
               /\ written = << >>)

\* "+x+" ran as "++" does
C16_Witness ==
    /\ pc = "returned"
    /\ runs = 1
    /\ bf = <<"+", "x", "+">>
    /\ Len(vm.program) = 3
    /\ Lookup(vm.memory, 0) = 2

(***************************************************************************)
(* C17, as claimed: every program New returns contains at least one        *)
(* instruction besides the trailing Exit; a program of Exit alone is never *)
(* returned.                                                               *)
(***************************************************************************)
C17_NeverExitAlone ==
    pc = "compiled" => Len(vm.program) >= 2

(***************************************************************************)
(* C17, amended: New returns a program of Exit alone exactly for the       *)
(* non-empty sources that hold no command character; every program         *)
(* compiled from a source with at least one command holds an instruction   *)
(* besides the trailing Exit, and the empty source is rejected.            *)
(***************************************************************************)
C17_ExitAloneIffNoCommand ==
    pc = "compiled" =>
        /\ Len(bf) >= 1
        /\ Len(vm.program) >= 1
        /\ (Len(vm.program) = 1) = (Strip(bf) = << >>)

C17_Witness ==
    /\ pc = "compiled"
    /\ bf = <<"x", "x">>
    /\ vm.program = <<makeExit>>

(***************************************************************************)
(* The stack machine of src/main.go.  Its values are float64; the model    *)
(* keeps them as exact fractions [n, d] in lowest terms with d > 0, which  *)
(* is what the float64 operations give on the values of the model wherever *)
(* the result is representable.                                            *)
(***************************************************************************)
Abs(a) == IF a < 0 THEN 0 - a ELSE a

RECURSIVE GCD(_, _)
GCD(a, b) == IF b = 0 THEN a ELSE GCD(b, a % b)

Frac(n, d) ==
    LET g == GCD(Abs(n), d) IN [n |-> n \div g, d |-> d \div g]

Zero == Frac(0, 1)

\* x + y, x * y and x / y (y # 0) of Go
Plus(x, y) == Frac(x.n * y.d + y.n * x.d, x.d * y.d)
Times(x, y) == Frac(x.n * y.n, x.d * y.d)
Over(x, y) ==
    IF y.n > 0 THEN Frac(x.n * y.d, x.d * y.n)
    ELSE Frac(0 - x.n * y.d, x.d * (0 - y.n))

\* the digits "%f" prints for x >= 0: the whole part and six decimals,
\* rounded to nearest
Million == 1000000
FmtF(x) ==
    LET whole == x.n \div x.d
        micro == (2 * (x.n % x.d) * Million + x.d) \div (2 * x.d)
    IN  IF micro = Million THEN [whole |-> whole + 1, micro |-> 0]
        ELSE [whole |-> whole, micro |-> micro]

\* the instructions: what each constructor captures
newInt(n) == [op |-> "newInt", n |-> n]
addOp == [op |-> "addOp", n |-> Zero]
mulOp == [op |-> "mulOp", n |-> Zero]
divOp == [op |-> "divOp", n |-> Zero]
printOp == [op |-> "printOp", n |-> Zero]

\* the closures, on v = [stack, program, err]; they yield [vm, ret, out]:
\* the VM, the int returned, and the lines printed
StackUnderflow(v) ==
    [vm |-> [v EXCEPT !.err = "stack underflow"], ret |-> 0, out |-> << >>]

Pushed(v, rest, val) ==
    [vm |-> [v EXCEPT !.stack = Append(rest, val)], ret |-> 1, out |-> << >>]

newIntCall(v, n) == Pushed(v, v.stack, n)

addOpCall(v) ==
    IF Len(v.stack) < 2 THEN StackUnderflow(v)
    ELSE LET x == Last(v.stack)
             y == Last(Front(v.stack))
         IN  Pushed(v, Front(Front(v.stack)), Plus(x, y))

\* a mutant of mulOp that pops x only
mulOpCall_KeepsOperand(v) ==
    IF Len(v.stack) < 2 THEN StackUnderflow(v)
    ELSE LET x == Last(v.stack)
             y == Last(Front(v.stack))
         IN  Pushed(v, Front(v.stack), Times(x, y))

mulOpCall(v) ==
    IF Len(v.stack) < 2 THEN StackUnderflow(v)
    ELSE LET x == Last(v.stack)
             y == Last(Front(v.stack))
         IN  Pushed(v, Front(Front(v.stack)), Times(x, y))

\* a mutant of divOp that tests the dividend
divOpCall_TestsTop(v) ==
    IF Len(v.stack) < 2 THEN StackUnderflow(v)
    ELSE LET x == Last(v.stack)
             y == Last(Front(v.stack))
             rest == Front(Front(v.stack))
         IN  IF x = Zero \/ y = Zero
             THEN [vm |-> [v EXCEPT !.stack = rest, !.err = "division by zero"],
                   ret |-> 0, out |-> << >>]
             ELSE Pushed(v, rest, Over(x, y))

\* a mutant of divOp that tests the divisor before it pops
divOpCall_TestsBeforePop(v) ==
    IF Len(v.stack) < 2 THEN StackUnderflow(v)
    ELSE LET x == Last(v.stack)
             y == Last(Front(v.stack))
             rest == Front(Front(v.stack))
         IN  IF y = Zero
             THEN [vm |-> [v EXCEPT !.err = "division by zero"],
                   ret |-> 0, out |-> << >>]
             ELSE Pushed(v, rest, Over(x, y))

divOpCall(v) ==
    IF Len(v.stack) < 2 THEN StackUnderflow(v)
    ELSE LET x == Last(v.stack)
             y == Last(Front(v.stack))
             rest == Front(Front(v.stack))
         IN  IF y = Zero
             THEN [vm |-> [v EXCEPT !.stack = rest, !.err = "division by zero"],
                   ret |-> 0, out |-> << >>]
             ELSE Pushed(v, rest, Over(x, y))

\* a mutant of printOp that steps over an empty stack
printOpCall_NoCheck(v) ==
    IF Len(v.stack) < 1 THEN [vm |-> v, ret |-> 1, out |-> << >>]
    ELSE [vm |-> v, ret |-> 1, out |-> <<FmtF(Last(v.stack))>>]

printOpCall(v) ==
    IF Len(v.stack) < 1 THEN StackUnderflow(v)
    ELSE [vm |-> v, ret |-> 1, out |-> <<FmtF(Last(v.stack))>>]

\* code[ip](vm)
CalcCall(ins, v) ==
    CASE ins.op = "newInt" -> newIntCall(v, ins.n)
      [] ins.op = "addOp" -> addOpCall(v)
      [] ins.op = "mulOp" -> mulOpCall(v)
      [] ins.op = "divOp" -> divOpCall(v)
      [] ins.op = "printOp" -> printOpCall(v)

\* the program of main()
MainProgram ==
    <<newInt(Frac(3, 1)), newInt(Frac(7, 1)), addOp, printOp,
      newInt(Frac(9, 2)), mulOp, printOp>>

CalcLiterals == {Zero, Frac(3, 1), Frac(9, 2)}
CalcInstructions ==
    {newInt(n) : n \in CalcLiterals} \cup {addOp, mulOp, divOp, printOp}
CalcPrograms ==
    UNION {[1..k -> CalcInstructions] : k \in 0..MaxProg} \cup {MainProgram}

\* the brainfuck VM is not part of this program
BfIdle ==
    /\ variant = "baked"
    /\ buffer = TRUE
    /\ bf = << >>
    /\ pc = "idle"
    /\ vm = NilVM
    /\ newErr = Nil
    /\ console = << >>
    /\ written = << >>
    /\ input = << >>
    /\ pos = 0
    /\ ret = Nil
    /\ runs = 0
    /\ log = << >>
    /\ flushes = << >>

\* v := New(prog)
InitCalc ==
    /\ BfIdle
    /\ \E prog \in CalcPrograms :
         calc = [stack |-> << >>, program |-> prog, err |-> Nil]
    /\ ip = 0
    /\ cpc = "new"
    /\ printed = << >>
    /\ cret = Nil
    /\ cruns = 0

\* the entry of RunProgram: "Reset the state of the stack each run."
CalcRunProgram ==
    /\ cpc \in {"new", "returned"}
    /\ cruns < MaxRuns
    /\ calc' = [calc EXCEPT !.stack = << >>]
    /\ ip' = 0
    /\ cpc' = "loop"
    /\ printed' = << >>
    /\ cret' = Nil
    /\ cruns' = cruns + 1
    /\ UNCHANGED bfVars

\* "if vm.err != nil { return vm.err }", with a mutant that never returns
HasFailed_Never(v) == FALSE
HasFailed(v) == v.err # Nil

\* one test of "for ip < len(code)" and, if it holds, one iteration
CalcStep ==
    /\ cpc = "loop"
    /\ IF ~(ip < Len(calc.program))
       THEN /\ cpc' = "returned"
            /\ cret' = Nil
            /\ UNCHANGED <<calc, ip, printed>>
       ELSE LET e == CalcCall(At(calc.program, ip), calc) IN
            /\ calc' = e.vm
            /\ ip' = ip + e.ret
            /\ printed' = printed \o e.out
            /\ cpc' = IF HasFailed(e.vm) THEN "returned" ELSE "loop"
            /\ cret' = IF HasFailed(e.vm) THEN e.vm.err ELSE Nil
    /\ UNCHANGED <<cruns, bfVars>>

NextCalc == CalcRunProgram \/ CalcStep

SpecCalc == InitCalc /\ [][NextCalc]_vars

\* either program: a brainfuck VM or a stack machine
InitAll == Init \/ InitCalc

NextAll == Next \/ NextCalc

SpecAll == InitAll /\ [][NextAll]_vars

(***************************************************************************)
(* The instruction the stack machine is about to execute.                  *)
(***************************************************************************)
CalcAt(op) ==
    /\ cpc = "loop"
    /\ ip < Len(calc.program)
    /\ At(calc.program, ip).op = op

CalcX == Last(calc.stack)
CalcY == Last(Front(calc.stack))
CalcRest == Front(Front(calc.stack))

\* a binary operator is about to run on two operands
OnTwo(op) == CalcAt(op) /\ Len(calc.stack) >= 2

MainPrints ==
    (cpc' = "returned" /\ calc.program = MainProgram) =>
        printed' = <<[whole |-> 10, micro |-> 0], [whole |-> 45, micro |-> 0]>>

(***************************************************************************)
(* C18, as claimed: each binary operator executed on a stack of depth >= 2 *)
(* removes exactly the two topmost values, x the former top and y the      *)
(* value below it, and pushes the single result x OP y; printOp leaves the *)
(* stack unchanged; the program of main prints 10 and then 45.             *)
(***************************************************************************)
C18_BinaryAlwaysPushes ==
    [][/\ OnTwo("addOp") => calc'.stack = Append(CalcRest, Plus(CalcX, CalcY))
       /\ OnTwo("mulOp") => calc'.stack = Append(CalcRest, Times(CalcX, CalcY))
       /\ OnTwo("divOp") =>
              /\ Len(calc'.stack) = Len(calc.stack) - 1
              /\ SubSeq(calc'.stack, 1, Len(CalcRest)) = CalcRest
       /\ CalcAt("printOp") => calc'.stack = calc.stack
       /\ MainPrints]_vars

(***************************************************************************)
(* C18, amended: each binary operator that succeeds on a stack of depth    *)
(* >= 2 (addOp and mulOp always, divOp when the value below the top is not *)
(* zero) removes exactly the two topmost values, x the former top and y    *)
(* the value below it, and pushes the single result x OP y; printOp leaves *)
(* the stack unchanged; the program of main prints 10 and then 45.         *)
(***************************************************************************)
C18_BinaryPushesResult ==
    [][/\ OnTwo("addOp") => calc'.stack = Append(CalcRest, Plus(CalcX, CalcY))
       /\ OnTwo("mulOp") => calc'.stack = Append(CalcRest, Times(CalcX, CalcY))
       /\ (OnTwo("divOp") /\ CalcY # Zero) =>
              calc'.stack = Append(CalcRest, Over(CalcX, CalcY))
       /\ CalcAt("printOp") => calc'.stack = calc.stack
       /\ MainPrints]_vars

C18_Witness ==
    /\ cpc = "returned"
    /\ cruns = 1
    /\ calc.program = MainProgram
    /\ calc.stack = <<Frac(45, 1)>>
    /\ printed = <<FmtF(Frac(10, 1)), FmtF(Frac(45, 1))>>

(***************************************************************************)
(* C19: every binary operator executed with fewer than two values on the   *)
(* stack, and printOp executed on an empty stack, ends the run with        *)
(* "stack underflow".                                                      *)
(***************************************************************************)
C19_Underflow ==
    [][(\/ /\ \E op \in {"addOp", "mulOp", "divOp"} : CalcAt(op)
           /\ Len(calc.stack) < 2
        \/ CalcAt("printOp") /\ Len(calc.stack) < 1) =>
          (cpc' = "returned" /\ cret' = "stack underflow")]_vars

\* printOp on the empty stack
C19_Witness ==
    /\ cpc = "returned"
    /\ cret = "stack underflow"
    /\ calc.program = <<printOp>>
    /\ calc.stack = << >>
    /\ printed = << >>

(***************************************************************************)
(* C20: divOp computes x / y with x the top of the stack and y the value   *)
(* below it, and it ends the run with "division by zero" exactly when y is *)
(* zero; a zero on top with a nonzero value below it is no error.          *)
(***************************************************************************)
C20_DivideOperands ==
    [][OnTwo("divOp") =>
          IF CalcY = Zero
          THEN cpc' = "returned" /\ cret' = "division by zero"
          ELSE /\ cpc' = "loop"
               /\ cret' = Nil
               /\ Len(calc'.stack) = Len(calc.stack) - 1
               /\ Times(Last(calc'.stack), CalcY) = CalcX]_vars

\* 0 / 3: a zero on top, three below it
C20_Witness ==
    /\ cpc = "returned"
    /\ cruns = 1
    /\ cret = Nil
    /\ calc.program = <<newInt(Frac(3, 1)), newInt(Zero), divOp>>
    /\ calc.stack = <<Zero>>

(***************************************************************************)
(* The instruction the brainfuck VM is about to execute.                   *)
(***************************************************************************)
AtOp(ops) ==
    /\ pc \in {"start", "loop"}
    /\ vm.ip >= 0 /\ vm.ip < Len(vm.program)
    /\ At(vm.program, vm.ip).op \in ops

\* the cell under the pointer
Cell == Load(vm, vm.ptr)

\* the instruction ran without a panic
Ran == pc' \in {"loop", "returned"}

\* the cells other than the one under the pointer are as they were
OtherCellsKept ==
    \A p \in ((DOMAIN vm.memory) \cup (DOMAIN vm'.memory)) \ {vm.ptr} :
        Lookup(vm'.memory, p) = Lookup(vm.memory, p)

(***************************************************************************)
(* C21: a LoopOpen executed with the cell at zero sets ip to its target    *)
(* and with the cell non-zero to ip + 1; a LoopClose executed with the     *)
(* cell non-zero sets ip to its target and with the cell at zero to        *)
(* ip + 1; neither changes the tape, the pointer or the output.            *)
(***************************************************************************)
C21_LoopStepRule ==
    [][(AtOp({"LoopOpen", "LoopClose"}) /\ InMemory(vm.ptr) /\ Ran) =>
          LET jumps == IF At(vm.program, vm.ip).op = "LoopOpen"
                       THEN Cell = 0 ELSE Cell # 0
          IN  /\ vm'.ip = IF jumps THEN Target(vm, vm.ip) ELSE vm.ip + 1
              /\ vm'.memory = vm.memory
              /\ vm'.ptr = vm.ptr
              /\ written' = written
              /\ pc' = "loop" => (console' = console /\ vm'.stdout = vm.stdout)]_vars

\* in "+[-][+]." the second loop was skipped: ip went from its LoopOpen to
\* its LoopClose
C21_Witness ==
    /\ pc = "loop"
    /\ runs = 1
    /\ bf = <<"+", "[", "-", "]", "[", "+", "]", ".">>
    /\ vm.ip = 6
    /\ vm.memory = EmptyMap

(***************************************************************************)
(* C22: each successful instruction other than the loop instructions and   *)
(* Exit advances ip by exactly 1 and changes only its own component:       *)
(* IncCell(n) and DecCell(n) only the cell under the pointer, by +n and    *)
(* -n; IncPtr(n) and DecPtr(n) only the pointer, by +n and -n; Read only   *)
(* the cell under the pointer; the writes only the buffer or STDOUT; the   *)
(* other cells and the program stay as they were.                          *)
(***************************************************************************)
OutputKept ==
    /\ written' = written
    /\ pc' = "loop" => (console' = console /\ vm'.stdout = vm.stdout)

C22_FrameOfInstructions ==
    [][/\ (AtOp({"IncCell", "DecCell"}) /\ InMemory(vm.ptr) /\ Ran) =>
            LET n == At(vm.program, vm.ip).arg IN
            /\ Lookup(vm'.memory, vm.ptr) =
                 IF At(vm.program, vm.ip).op = "IncCell" THEN Cell + n ELSE Cell - n
            /\ OtherCellsKept /\ vm'.ptr = vm.ptr /\ OutputKept
            /\ vm'.ip = vm.ip + 1 /\ vm'.program = vm.program
       /\ (AtOp({"IncPtr", "DecPtr"}) /\ Ran) =>
            LET n == At(vm.program, vm.ip).arg IN
            /\ vm'.ptr = IF At(vm.program, vm.ip).op = "IncPtr"
                         THEN vm.ptr + n ELSE vm.ptr - n
            /\ vm'.memory = vm.memory /\ OutputKept
            /\ vm'.ip = vm.ip + 1 /\ vm'.program = vm.program
       /\ (AtOp({"Read"}) /\ InMemory(vm.ptr) /\ Ran
             /\ ~ReadFailed(At(input', pos))) =>
            /\ Lookup(vm'.memory, vm.ptr) = At(input', pos).b
            /\ OtherCellsKept /\ vm'.ptr = vm.ptr /\ OutputKept
            /\ vm'.ip = vm.ip + 1 /\ vm'.program = vm.program
       /\ (AtOp({"Write", "WriteCached"}) /\ InMemory(vm.ptr) /\ Ran) =>
            /\ written' = Append(written, Cell)
            /\ vm'.memory = vm.memory /\ vm'.ptr = vm.ptr
            /\ vm'.ip = vm.ip + 1 /\ vm'.program = vm.program]_vars

\* ",+." after its three instructions: the byte read, one more, written
C22_Witness ==
    /\ pc = "loop"
    /\ runs = 1
    /\ bf = <<",", "+", ".">>
    /\ vm.ip = 3
    /\ vm.ptr = 0
    /\ Lookup(vm.memory, 0) = 11
    /\ written = <<11>>

(***************************************************************************)
(* C23: with buffering enabled, a write of a character other than the      *)
(* newline appends it to the buffer and sends nothing to STDOUT, a write   *)
(* of the newline sends the buffer followed by the newline to STDOUT and   *)
(* leaves the buffer empty, and at every point of a run what has reached   *)
(* STDOUT followed by the buffer is the sequence of characters written so  *)
(* far.                                                                    *)
(***************************************************************************)
C23_SinkThenBuffer ==
    [][/\ (Buffering /\ AtOp({"WriteCached"}) /\ InMemory(vm.ptr) /\ pc' = "loop") =>
            IF Cell = Newline
            THEN /\ console' = console \o vm.stdout \o <<Newline>>
                 /\ vm'.stdout = << >>
            ELSE /\ console' = console
                 /\ vm'.stdout = vm.stdout \o BytesOf(<<Cell>>, variant)
       /\ (Buffering /\ pc' \in {"start", "loop", "returned"}) =>
            console' \o vm'.stdout = BytesOf(written', variant)]_vars

(***************************************************************************)
(* C24: every runtime error is immediately fatal: once an instruction      *)
(* reports an error, RunProgram returns that same error, the failing       *)
(* instruction is not executed again and no further instruction of that    *)
(* run is executed.  For the brainfuck VM the instruction that reports an  *)
(* error is a failed read; for the stack machine an operator short of      *)
(* operands or a division by zero.                                         *)
(***************************************************************************)
\* the error the stack machine's instruction at ip is about to report
CalcError ==
    IF \/ /\ \E op \in {"addOp", "mulOp", "divOp"} : CalcAt(op)
          /\ Len(calc.stack) < 2
       \/ CalcAt("printOp") /\ Len(calc.stack) < 1
    THEN "stack underflow"
    ELSE IF OnTwo("divOp") /\ CalcY = Zero THEN "division by zero"
    ELSE Nil

\* the error of a failed read
ReadError(r) ==
    IF r.err # Nil THEN r.err ELSE "read 0 bytes of input, not 1"

C24_ErrorsAreFatal ==
    [][/\ (cpc = "loop" /\ CalcError # Nil) =>
            (cpc' = "returned" /\ cret' = CalcError /\ ip' = ip)
       /\ (cpc = "returned" /\ cruns' = cruns) =>
            UNCHANGED <<calc, ip, printed, cret, cpc>>
       /\ (AtOp({"Read"}) /\ pos' = pos + 1 /\ ReadFailed(At(input', pos))) =>
            /\ pc' = "returned"
            /\ ret' = ReadError(At(input', pos))
            /\ vm'.ip = vm.ip
       /\ (pc = "returned" /\ runs' = runs) =>
            UNCHANGED <<vm, console, written, ret, pc, pos>>]_vars

\* the division by zero ended the run before the printOp behind it
C24_Witness ==
    /\ cpc = "returned"
    /\ cruns = 1
    /\ cret = "division by zero"
    /\ calc.program = <<newInt(Zero), newInt(Frac(3, 1)), divOp, printOp>>
    /\ ip = 2
    /\ printed = << >>

(***************************************************************************)
(* C25: cell arithmetic does not wrap at 8 bits: IncCell on a cell holding *)
(* 255 yields 256, DecCell on a cell holding 0 yields a negative value,    *)
(* and a loop such as "[+]" entered with a positive cell is not ended at   *)
(* 256: its LoopClose jumps back.                                          *)
(***************************************************************************)
C25_NoWrap ==
    [][/\ (AtOp({"IncCell"}) /\ InMemory(vm.ptr) /\ Ran) =>
            /\ Lookup(vm'.memory, vm.ptr) > Cell
            /\ Cell = 255 => Lookup(vm'.memory, vm.ptr) = 255 + At(vm.program, vm.ip).arg
       /\ (AtOp({"DecCell"}) /\ InMemory(vm.ptr) /\ Ran) =>
            /\ Lookup(vm'.memory, vm.ptr) < Cell
            /\ Cell = 0 => Lookup(vm'.memory, vm.ptr) = 0 - At(vm.program, vm.ip).arg
       /\ (AtOp({"LoopClose"}) /\ InMemory(vm.ptr) /\ Ran /\ Cell = 256) =>
            vm'.ip = Target(vm, vm.ip)]_vars

\* ",[+]" on the byte 255: the cell is 256 and the loop goes on
C25_Witness ==
    /\ pc = "loop"
    /\ runs = 1
    /\ bf = <<",", "[", "+", "]">>
    /\ Lookup(vm.memory, 0) = 256
    /\ vm.ip = 1

(***************************************************************************)
(* The pairing of the brackets of a source and of the loops of a program.  *)
(***************************************************************************)
Brackets == {"[", "]"}
LoopOps == {"LoopOpen", "LoopClose"}

\* '[' minus ']' among the characters i..j of the source
DepthFrom(src, i, j) ==
    Cardinality({m \in i..j : src[m] = "["}) - Cardinality({m \in i..j : src[m] = "]"})

\* the ']' that closes the '[' at i: the nearest at which the depth counted
\* from i returns to zero
SrcMatch(src, i) ==
    CHOOSE j \in (i + 1)..Len(src) :
        /\ DepthFrom(src, i, j) = 0
        /\ \A m \in i..(j - 1) : DepthFrom(src, i, m) > 0

\* the how-manieth bracket of the source the one at i is, and the
\* how-manieth loop instruction of the program the one at k is
SrcOrd(src, i) == Cardinality({m \in 1..i : src[m] \in Brackets})
ProgOrd(program, k) == Cardinality({m \in 0..k : At(program, m).op \in LoopOps})

SrcPairs(src) ==
    {<<SrcOrd(src, i), SrcOrd(src, SrcMatch(src, i))>> :
        i \in {m \in 1..Len(src) : src[m] = "["}}

CloseIndices(program) ==
    {k \in 0..(Len(program) - 1) : At(program, k).op = "LoopClose"}

\* the pairs <<open, close>> that the targets of the LoopOpens name
ProgPairs(v) == {<<k, Target(v, k)>> : k \in OpenIndices(v.program)}

(***************************************************************************)
(* C26: in every program compiled from a balanced source the loop          *)
(* instructions pair up one-to-one: each LoopOpen has exactly one matching *)
(* LoopClose, at a higher index, and each LoopClose exactly one matching   *)
(* LoopOpen; the pairing is the stack pairing of the brackets of the       *)
(* source; and any two pairs are disjoint or properly nested.              *)
(***************************************************************************)
C26_LoopsPairUp ==
    (pc = "compiled" /\ Balanced(bf)) =>
        /\ \A k \in OpenIndices(vm.program) :
             /\ Target(vm, k) \in CloseIndices(vm.program)
             /\ Target(vm, k) > k
             /\ {j \in CloseIndices(vm.program) : Target(vm, j) = k}
                   = {Target(vm, k)}
        /\ \A j \in CloseIndices(vm.program) :
             /\ Target(vm, j) \in OpenIndices(vm.program)
             /\ {k \in OpenIndices(vm.program) : Target(vm, k) = j}
                   = {Target(vm, j)}
        /\ {<<ProgOrd(vm.program, p[1]), ProgOrd(vm.program, p[2])>> :
               p \in ProgPairs(vm)} = SrcPairs(bf)
        /\ \A p, q \in ProgPairs(vm) :
             \/ p = q
             \/ p[2] < q[1] \/ q[2] < p[1]
             \/ (p[1] < q[1] /\ q[2] < p[2])
             \/ (q[1] < p[1] /\ p[2] < q[2])

\* "[[]]": a pair properly inside another
C26_Witness ==
    /\ pc = "compiled"
    /\ bf = <<"[", "[", "]", "]">>
    /\ ProgPairs(vm) = {<<0, 3>>, <<1, 2>>}

(***************************************************************************)
(* C27: the map-lookup engine ("lookup": the loop instructions set ip to   *)
(* loops[ip] at run time) and the baked-target engine ("baked": the jump   *)
(* index is captured at compile time) are step-for-step equivalent: for    *)
(* every balanced source and input both go through the same sequence of    *)
(* (ip, pointer, tape, output) states.  Stated as a simulation: the two    *)
(* start alike, and from states that are alike one iteration of either     *)
(* RunProgram leads to states that are alike.                              *)
(***************************************************************************)
\* the program New compiles for the baked-target engine from this source
BakedProgram == New(bf, "baked", buffer).vm.program

\* the VM of the baked-target engine in the state that is like v
BakedLike(v) == [v EXCEPT !.program = BakedProgram, !.loops = EmptyMap]

C27_EnginesAgree ==
    [][(variant = "lookup" /\ Balanced(bf) /\ runs' = 1) =>
          /\ pc' = "start" =>
               BakedLike(vm') = [New(bf, "baked", buffer).vm EXCEPT !.ptr = 0, !.ip = 0]
          /\ (pc \in {"start", "loop"} /\ pc' \in {"loop", "returned", "panic"}) =>
               LET n == RunProgramStep(
                            [vm |-> BakedLike(vm), console |-> console,
                             written |-> written], "baked",
                            IF IsRead THEN At(input', pos) ELSE NoRead)
               IN  /\ n.pc = pc'
                   /\ n.ret = ret'
                   /\ n.vm.ip = vm'.ip
                   /\ n.vm.ptr = vm'.ptr
                   /\ n.vm.memory = vm'.memory
                   /\ n.vm.stdout = vm'.stdout
                   /\ n.console = console'
                   /\ n.written = written']_vars

\* the nested loops of "++[>+[-]<-]" have run to the end
C27_Witness ==
    /\ variant = "lookup"
    /\ pc = "returned"
    /\ runs = 1
    /\ bf = <<"+", "+", "[", ">", "+", "[", "-", "]", "<", "-", "]">>
    /\ vm.ip = 10
    /\ vm.memory = EmptyMap

(***************************************************************************)
(* C28: in the stack machine every successful instruction returns +1 and a *)
(* failing one ends the run, so the instructions execute in program order, *)
(* each at most once, and every run ends after at most len(program) steps, *)
(* either by running off the end with success or at the first error.       *)
(***************************************************************************)
C28_InOrderAtMostOnce ==
    [][/\ (cpc = "loop" /\ ip < Len(calc.program)) =>
            IF CalcError = Nil
            THEN ip' = ip + 1 /\ cpc' = "loop"
            ELSE ip' = ip /\ cpc' = "returned" /\ cret' = CalcError
       /\ (cpc = "loop" /\ ~(ip < Len(calc.program))) =>
            (ip = Len(calc.program) /\ cpc' = "returned" /\ cret' = Nil)
       /\ cpc = "loop" => ip' <= Len(calc.program)]_vars

(***************************************************************************)
(* C29: in the stack machine an instruction that fails with "stack         *)
(* underflow" leaves the stack exactly as it was before the instruction,   *)
(* whereas a divOp that fails with "division by zero" has removed both     *)
(* operands: the stack is two entries shorter than before the instruction. *)
(***************************************************************************)
C29_StackAfterFailure ==
    [][/\ (cpc = "loop" /\ CalcError = "stack underflow") =>
            (cret' = "stack underflow" /\ calc'.stack = calc.stack)
       /\ (OnTwo("divOp") /\ CalcY = Zero) =>
            /\ cret' = "division by zero"
            /\ calc'.stack = CalcRest
            /\ Len(calc'.stack) = Len(calc.stack) - 2]_vars

\* 3 / 0 above a 3 that stays
C29_Witness ==
    /\ cpc = "returned"
    /\ cruns = 1
    /\ cret = "division by zero"
    /\ calc.program = <<newInt(Frac(3, 1)), newInt(Zero), newInt(Frac(3, 1)), divOp>>
    /\ calc.stack = <<Frac(3, 1)>>

=============================================================================
